---- MODULE Spec2Model ----
(***************************************************************************)
(* First-order link prediction of scikit-network                           *)
(* (sknetwork/linkpred/first_order.py): the fitted CSR view of FirstOrder, *)
(* the nine similarity classes, and the predict surface they share.        *)
(*                                                                         *)
(* Scores are kept exact.  A ratio a/b is the record [num, den]; the       *)
(* Salton score a/sqrt(r) is the record [num, rad]; the Adamic-Adar and    *)
(* Resource-Allocation sums are the record [terms], the sequence of the    *)
(* degrees deg_z whose 1/ln(deg_z), resp. 1/deg_z, are added in order.     *)
(*                                                                         *)
(* The nine classes inherit fit and the two fields from FirstOrder and     *)
(* differ in _predict_base alone, so the fields are kept once and every    *)
(* predict call names the class of the instance it is made on.  The Cython *)
(* kernels (first_order_core), the dispatcher (base.py), check_format and  *)
(* house() are written from their description and from the docstring       *)
(* examples of first_order.py.                                             *)
(***************************************************************************)
EXTENDS Integers, Sequences, FiniteSets, TLC

VARIABLES
    indptr_,     \* self.indptr_  (None before the first fit)
    indices_,    \* self.indices_ (None before the first fit)
    adjacency,   \* the caller's matrix object handed to the latest fit, as it is now
    given,       \* history: that matrix as it was when the call was made
    replaced,    \* history: the latest fit overwrote a different, earlier view
    call,        \* the call just made, with the class of the instance it was made on
    ret          \* what that call returned or raised

vars == <<indptr_, indices_, adjacency, given, replaced, call, ret>>

-----------------------------------------------------------------------------
(* Bounds of the model *)

\* largest number of rows and of columns of an enumerated adjacency
MaxN == 2

\* largest number of stored entries of an enumerated adjacency
MaxNnz == 2

\* longest list of ids or of pairs in a query
MaxQueryLen == 2

None == <<>>

-----------------------------------------------------------------------------
(* Generic helpers *)

Min(a, b) == IF a <= b THEN a ELSE b
Max(a, b) == IF a >= b THEN a ELSE b

Range(s) == {s[k] : k \in 1..Len(s)}

SeqsUpTo(S, k) == UNION {[1..m -> S] : m \in 0..k}

\* np.int32 holds -2^31 .. 2^31 - 1 and keeps every value of that range as it
\* is; the integers of this model (degrees and offsets of graphs of at most
\* twelve entries) all lie in it
InInt32(x) == x >= -2147483647 - 1 /\ x <= 2147483647

Value(v) == [kind |-> "value", value |-> v]
Raise(e) == [kind |-> "raise", error |-> e]
IsValue(r) == r.kind = "value"
NoRet == [kind |-> "none"]

-----------------------------------------------------------------------------
(* The caller's matrices.  A matrix is [fmt, shape, indptr, indices, data]: *)
(* for fmt = "csr" the three scipy arrays as the caller built them (rows    *)
(* may be unsorted and may repeat a column); for fmt = "ndarray" the dense  *)
(* array, written as the canonical CSR arrays scipy derives from it.        *)

Indptrs(r, m) ==
    {p \in [1..(r + 1) -> 0..m] :
        /\ p[1] = 0
        /\ p[r + 1] = m
        /\ \A k \in 1..r : p[k] <= p[k + 1]}

\* data carries the original position of each entry, so a reordering shows
Matrix(fmt, r, c, p, ix) ==
    [fmt |-> fmt, shape |-> <<r, c>>, indptr |-> p, indices |-> ix,
     data |-> [k \in 1..Len(ix) |-> k]]

RowOf(m, i) == SubSeq(m.indices, m.indptr[i + 1] + 1, m.indptr[i + 2])

NRows(m) == m.shape[1]
NCols(m) == m.shape[2]

IsCanonical(m) ==
    \A i \in 0..(NRows(m) - 1) :
        LET row == RowOf(m, i)
        IN  \A k \in 1..(Len(row) - 1) : row[k] < row[k + 1]

CsrMatrices ==
    UNION {UNION {UNION {{Matrix("csr", r, c, p, ix) : p \in Indptrs(r, Len(ix))}
                         : ix \in SeqsUpTo(0..(c - 1), MaxNnz)}
                  : c \in 1..MaxN}
           : r \in 1..MaxN}

\* sknetwork.data.house(): the 5-node graph of the docstring examples
house ==
    Matrix("csr", 5, 5, <<0, 2, 5, 7, 9, 12>>,
           <<1, 4, 0, 2, 4, 1, 3, 2, 4, 0, 1, 3>>)

DocGraphs == {house}

\* the same graphs handed over as dense arrays
DenseGraphs == {[m EXCEPT !.fmt = "ndarray"] : m \in {x \in DocGraphs : IsCanonical(x)}}

\* what fit is called with: every CSR matrix within the bounds, and the
\* documented graphs in both formats
Adjacencies == CsrMatrices \cup DocGraphs \cup DenseGraphs

-----------------------------------------------------------------------------
(* FirstOrder.fit *)

\* sknetwork.utils.check.check_format: a CSR matrix is passed through as the
\* same object (its arrays are the caller's), a dense array is converted to
\* a new CSR matrix; the shape is not constrained
check_format(a) ==
    [matrix |-> [a EXCEPT !.fmt = "csr"], same_object |-> (a.fmt = "csr")]

\* insertion of entry <<index, datum>> into a row sorted by index
RECURSIVE InsertSorted(_, _)
InsertSorted(row, e) ==
    IF row = <<>> THEN <<e>>
    ELSE IF Head(row)[1] <= e[1] THEN <<Head(row)>> \o InsertSorted(Tail(row), e)
    ELSE <<e>> \o row

RECURSIVE SortRow(_)
SortRow(row) ==
    IF row = <<>> THEN <<>>
    ELSE InsertSorted(SortRow(SubSeq(row, 1, Len(row) - 1)), row[Len(row)])

\* scipy csr_matrix.sort_indices(): sorts every row's (index, data) entries
\* by index, in place; equal indices are both kept
sort_indices(m) ==
    LET entry(k) == <<m.indices[k], m.data[k]>>
        rowEntries(i) == [k \in 1..(m.indptr[i + 2] - m.indptr[i + 1]) |->
                              entry(m.indptr[i + 1] + k)]
        RECURSIVE concat(_)
        concat(i) == IF i < 0 THEN <<>> ELSE concat(i - 1) \o SortRow(rowEntries(i))
        all == concat(NRows(m) - 1)
    IN  [m EXCEPT !.indices = [k \in 1..Len(all) |-> all[k][1]],
                  !.data = [k \in 1..Len(all) |-> all[k][2]]]

\* ndarray.astype(np.int32), on values that fit
astype_int32(arr) == [k \in 1..Len(arr) |-> CHOOSE x \in {arr[k]} : InInt32(x)]

\* slip: an instance that is fitted already keeps its view
fit_once(self, a) ==
    IF self.indptr_ # None
    THEN [indptr_ |-> self.indptr_, indices_ |-> self.indices_, adjacency |-> a]
    ELSE LET checked == check_format(a)
             sorted == sort_indices(checked.matrix)
         IN  [indptr_ |-> astype_int32(sorted.indptr),
              indices_ |-> astype_int32(sorted.indices),
              adjacency |-> IF checked.same_object THEN sorted ELSE a]

\* the instance's fields and the caller's object after fit(a)
fit(self, a) ==
    LET checked == check_format(a)
        sorted == sort_indices(checked.matrix)
    IN  [indptr_ |-> astype_int32(sorted.indptr),
         indices_ |-> astype_int32(sorted.indices),
         adjacency |-> IF checked.same_object THEN sorted ELSE a]


-----------------------------------------------------------------------------
(* Similarity kernels (sknetwork/linkpred/first_order_core):               *)
(* (indptr, indices, source, targets) -> one score per target, in order.   *)

neighbors(indptr, indices, node) ==
    SubSeq(indices, indptr[node + 1] + 1, indptr[node + 2])

degree(indptr, node) == indptr[node + 2] - indptr[node + 1]

\* two-pointer merge of two sorted neighbor slices
RECURSIVE intersection(_, _)
intersection(a, b) ==
    IF a = <<>> \/ b = <<>> THEN <<>>
    ELSE IF Head(a) = Head(b) THEN <<Head(a)>> \o intersection(Tail(a), Tail(b))
    ELSE IF Head(a) < Head(b) THEN intersection(Tail(a), b)
    ELSE intersection(a, Tail(b))

\* zero denominator -> score 0
Ratio(num, den) ==
    IF den = 0 THEN [num |-> 0, den |-> 1] ELSE [num |-> num, den |-> den]

RECURSIVE FirstRaise(_)
FirstRaise(rs) ==
    IF rs = <<>> THEN NoRet
    ELSE IF Head(rs).kind = "raise" THEN Head(rs)
    ELSE FirstRaise(Tail(rs))

\* all results of a sequence of outcomes, or the first error among them
Gather(rs) ==
    IF \E k \in 1..Len(rs) : rs[k].kind = "raise" THEN FirstRaise(rs)
    ELSE Value([k \in 1..Len(rs) |-> rs[k].value])

common_neigh_score(common, indptr, deg_i, deg_j) == Value(Len(common))
jaccard_score(common, indptr, deg_i, deg_j) ==
    Value(Ratio(Len(common), deg_i + deg_j - Len(common)))
salton_score(common, indptr, deg_i, deg_j) ==
    Value(IF deg_i * deg_j = 0 THEN [num |-> 0, rad |-> 1]
          ELSE [num |-> Len(common), rad |-> deg_i * deg_j])
sorensen_score(common, indptr, deg_i, deg_j) ==
    Value(Ratio(2 * Len(common), deg_i + deg_j))

\* the two hub indices divide the intersection size itself: the docstring
\* examples give 1 for a node against itself and 0.5 for house nodes 0 and 1
hub_promoted_score(common, indptr, deg_i, deg_j) ==
    Value(Ratio(Len(common), Min(deg_i, deg_j)))
hub_depressed_score(common, indptr, deg_i, deg_j) ==
    Value(Ratio(Len(common), Max(deg_i, deg_j)))

\* degrees of the shared neighbors, in merge order; a shared neighbor that is
\* no row of indptr cannot be looked up
SharedDegrees(common, indptr) ==
    [k \in 1..Len(common) |->
        IF common[k] \in 0..(Len(indptr) - 2) THEN degree(indptr, common[k]) ELSE -1]

adamic_adar_score(common, indptr, deg_i, deg_j) ==
    LET degs == SharedDegrees(common, indptr)
    IN  IF \E k \in 1..Len(degs) : degs[k] < 0 THEN Raise("IndexError")
        ELSE Value([terms |-> SelectSeq(degs, LAMBDA d : d > 1)])

resource_allocation_score(common, indptr, deg_i, deg_j) ==
    LET degs == SharedDegrees(common, indptr)
    IN  IF \E k \in 1..Len(degs) : degs[k] < 0 THEN Raise("IndexError")
        ELSE IF \E k \in 1..Len(degs) : degs[k] = 0 THEN Raise("ZeroDivisionError")
        ELSE Value([terms |-> degs])

\* The score each kernel computes for one pair.
score(name, common, indptr, deg_i, deg_j) ==
    CASE name = "common_neigh" -> common_neigh_score(common, indptr, deg_i, deg_j)
      [] name = "jaccard" -> jaccard_score(common, indptr, deg_i, deg_j)
      [] name = "salton" -> salton_score(common, indptr, deg_i, deg_j)
      [] name = "sorensen" -> sorensen_score(common, indptr, deg_i, deg_j)
      [] name = "hub_promoted" -> hub_promoted_score(common, indptr, deg_i, deg_j)
      [] name = "hub_depressed" -> hub_depressed_score(common, indptr, deg_i, deg_j)
      [] name = "adamic_adar" -> adamic_adar_score(common, indptr, deg_i, deg_j)
      [] name = "resource_allocation" ->
            resource_allocation_score(common, indptr, deg_i, deg_j)

\* the loop all kernels share: score(name, common, indptr, deg_src, deg_tgt) is
\* the weight the kernel called name gives one (source, target) pair
kernel(indptr, indices, source, targets, name) ==
    LET n == Len(indptr) - 1
        valid(k) == k \in 0..(n - 1)
    IN  IF indptr = None THEN Raise("TypeError")
        ELSE IF ~valid(source) \/ \E k \in 1..Len(targets) : ~valid(targets[k])
        THEN Raise("IndexError")
        ELSE LET n_source == neighbors(indptr, indices, source)
                 one(target) ==
                     LET n_target == neighbors(indptr, indices, target)
                     IN  score(name, intersection(n_source, n_target), indptr,
                               Len(n_source), Len(n_target))
             IN  Gather([k \in 1..Len(targets) |-> one(targets[k])])

c_common_neigh(indptr, indices, source, targets) ==
    kernel(indptr, indices, source, targets, "common_neigh")
c_jaccard(indptr, indices, source, targets) ==
    kernel(indptr, indices, source, targets, "jaccard")
c_salton(indptr, indices, source, targets) ==
    kernel(indptr, indices, source, targets, "salton")
c_sorensen(indptr, indices, source, targets) ==
    kernel(indptr, indices, source, targets, "sorensen")
c_hub_promoted(indptr, indices, source, targets) ==
    kernel(indptr, indices, source, targets, "hub_promoted")
c_hub_depressed(indptr, indices, source, targets) ==
    kernel(indptr, indices, source, targets, "hub_depressed")
adamic_adar(indptr, indices, source, targets) ==
    kernel(indptr, indices, source, targets, "adamic_adar")
resource_allocation(indptr, indices, source, targets) ==
    kernel(indptr, indices, source, targets, "resource_allocation")

-----------------------------------------------------------------------------
(* The nine classes' _predict_base(self, source, targets) *)

\* np.int32(x) and np.array(xs, dtype=np.int32), on values that fit
int32(x) == CHOOSE y \in {x} : InInt32(y)

\* (CommonNeighbors casts the counts with astype(int), which keeps them)
CommonNeighbors_predict_base(self, source, targets) ==
    c_common_neigh(self.indptr_, self.indices_, int32(source), astype_int32(targets))
JaccardIndex_predict_base(self, source, targets) ==
    c_jaccard(self.indptr_, self.indices_, int32(source), astype_int32(targets))
SaltonIndex_predict_base(self, source, targets) ==
    c_salton(self.indptr_, self.indices_, int32(source), astype_int32(targets))
SorensenIndex_predict_base(self, source, targets) ==
    c_sorensen(self.indptr_, self.indices_, int32(source), astype_int32(targets))

\* slip: the kernel of the class above is called
HubPromotedIndex_predict_base_sorensen(self, source, targets) ==
    c_sorensen(self.indptr_, self.indices_, int32(source), astype_int32(targets))
HubPromotedIndex_predict_base(self, source, targets) ==
    c_hub_promoted(self.indptr_, self.indices_, int32(source), astype_int32(targets))
HubDepressedIndex_predict_base(self, source, targets) ==
    c_hub_depressed(self.indptr_, self.indices_, int32(source), astype_int32(targets))
AdamicAdar_predict_base(self, source, targets) ==
    adamic_adar(self.indptr_, self.indices_, int32(source), astype_int32(targets))

\* slip: the kernel of the class above is called
ResourceAllocation_predict_base_adamic(self, source, targets) ==
    adamic_adar(self.indptr_, self.indices_, int32(source), astype_int32(targets))
ResourceAllocation_predict_base(self, source, targets) ==
    resource_allocation(self.indptr_, self.indices_, int32(source), astype_int32(targets))

\* numpy arr[k]: a negative k counts from the end, anything else out of
\* range raises IndexError
NpInRange(arr, k) == k >= -Len(arr) /\ k < Len(arr)
NpGet(arr, k) == IF k >= 0 THEN arr[k + 1] ELSE arr[Len(arr) + k + 1]

\* both pointer lookups of source and of every target are in range
PaIndexable(indptr, source, targets) ==
    /\ NpInRange(indptr, source + 1) /\ NpInRange(indptr, source)
    /\ \A k \in 1..Len(targets) :
           NpInRange(indptr, targets[k] + 1) /\ NpInRange(indptr, targets[k])

\* slip: the target's degree is taken from the source's lower offset
PreferentialAttachment_predict_base_typo(self, source, targets) ==
    LET indptr == self.indptr_
    IN  IF indptr = None THEN Raise("TypeError")
        ELSE IF ~PaIndexable(indptr, source, targets) THEN Raise("IndexError")
        ELSE LET deg_src == NpGet(indptr, source + 1) - NpGet(indptr, source)
                 deg_tgt == [k \in 1..Len(targets) |->
                                NpGet(indptr, targets[k] + 1) - NpGet(indptr, source)]
             IN  Value([k \in 1..Len(targets) |-> int32(deg_src * deg_tgt[k])])

\* slip: the source's degree is multiplied by itself
PreferentialAttachment_predict_base_square(self, source, targets) ==
    LET indptr == self.indptr_
    IN  IF indptr = None THEN Raise("TypeError")
        ELSE IF ~PaIndexable(indptr, source, targets) THEN Raise("IndexError")
        ELSE LET deg_src == NpGet(indptr, source + 1) - NpGet(indptr, source)
             IN  Value([k \in 1..Len(targets) |-> int32(deg_src * deg_src)])

\* slip: the degrees are added
PreferentialAttachment_predict_base_sum(self, source, targets) ==
    LET indptr == self.indptr_
    IN  IF indptr = None THEN Raise("TypeError")
        ELSE IF ~PaIndexable(indptr, source, targets) THEN Raise("IndexError")
        ELSE LET deg_src == NpGet(indptr, source + 1) - NpGet(indptr, source)
                 deg_tgt == [k \in 1..Len(targets) |->
                                NpGet(indptr, targets[k] + 1) - NpGet(indptr, targets[k])]
             IN  Value([k \in 1..Len(targets) |-> int32(deg_src + deg_tgt[k])])

PreferentialAttachment_predict_base(self, source, targets) ==
    LET indptr == self.indptr_
    IN  IF indptr = None THEN Raise("TypeError")
        ELSE IF ~PaIndexable(indptr, source, targets) THEN Raise("IndexError")
        ELSE LET deg_src == NpGet(indptr, source + 1) - NpGet(indptr, source)
                 deg_tgt == [k \in 1..Len(targets) |->
                                NpGet(indptr, targets[k] + 1) - NpGet(indptr, targets[k])]
             IN  Value([k \in 1..Len(targets) |-> int32(deg_src * deg_tgt[k])])

\* self._predict_base, resolved by the class of self
predict_base(self, source, targets) ==
    CASE self.cls = "CommonNeighbors" -> CommonNeighbors_predict_base(self, source, targets)
      [] self.cls = "JaccardIndex" -> JaccardIndex_predict_base(self, source, targets)
      [] self.cls = "SaltonIndex" -> SaltonIndex_predict_base(self, source, targets)
      [] self.cls = "SorensenIndex" -> SorensenIndex_predict_base(self, source, targets)
      [] self.cls = "HubPromotedIndex" -> HubPromotedIndex_predict_base(self, source, targets)
      [] self.cls = "HubDepressedIndex" -> HubDepressedIndex_predict_base(self, source, targets)
      [] self.cls = "AdamicAdar" -> AdamicAdar_predict_base(self, source, targets)
      [] self.cls = "ResourceAllocation" -> ResourceAllocation_predict_base(self, source, targets)
      [] self.cls = "PreferentialAttachment" ->
            PreferentialAttachment_predict_base(self, source, targets)

arange(n) == [k \in 1..n |-> k - 1]

\* slip: the node count is taken one too small
predict_node_short(self, source) ==
    IF self.indptr_ = None THEN Raise("AttributeError")
    ELSE LET n == Len(self.indptr_) - 2
         IN  predict_base(self, source, arange(n))

\* FirstOrder._predict_node
predict_node(self, source) ==
    IF self.indptr_ = None THEN Raise("AttributeError")
    ELSE LET n == Len(self.indptr_) - 1
         IN  predict_base(self, source, arange(n))

-----------------------------------------------------------------------------
(* The prediction surface of BaseLinkPred (sknetwork/linkpred/base.py) *)

predict_nodes(self, nodes) ==
    Gather([k \in 1..Len(nodes) |-> predict_node(self, nodes[k])])

predict_edge(self, source, target) ==
    LET r == predict_base(self, source, <<target>>)
    IN  IF IsValue(r) THEN Value(r.value[1]) ELSE r

predict_edges(self, edges) ==
    Gather([k \in 1..Len(edges) |-> predict_edge(self, edges[k][1], edges[k][2])])

NodeQ(i) == [shape |-> "node", id |-> i]
NodesQ(ids) == [shape |-> "nodes", ids |-> ids]
EdgeQ(i, j) == [shape |-> "edge", pair |-> <<i, j>>]
EdgesQ(pairs) == [shape |-> "edges", pairs |-> pairs]

predict(self, query) ==
    CASE query.shape = "node" -> predict_node(self, query.id)
      [] query.shape = "nodes" -> predict_nodes(self, query.ids)
      [] query.shape = "edge" -> predict_edge(self, query.pair[1], query.pair[2])
      [] query.shape = "edges" -> predict_edges(self, query.pairs)

\* fit(adjacency).predict(query): the fitted fields and what predict returns
fit_predict(self, a, query) ==
    LET f == fit(self, a)
    IN  [fitted |-> f,
         ret |-> predict([self EXCEPT !.indptr_ = f.indptr_, !.indices_ = f.indices_],
                         query)]

-----------------------------------------------------------------------------
Metrics == {"CommonNeighbors", "JaccardIndex", "SaltonIndex", "SorensenIndex",
            "HubPromotedIndex", "HubDepressedIndex", "AdamicAdar",
            "ResourceAllocation", "PreferentialAttachment"}

\* the instance the calls are made on, of class cls
Self(cls) == [cls |-> cls, indptr_ |-> indptr_, indices_ |-> indices_]

\* node count of the fitted view (1 for the queries made before any fit)
NodeCount == IF indptr_ = None THEN 1 ELSE Len(indptr_) - 1

\* the queries of the docstring examples
DocQueries ==
    {NodeQ(0), NodesQ(<<0, 1>>), EdgeQ(0, 1), EdgesQ(<<<<0, 1>>, <<1, 2>>>>)}

\* the first k elements of a, b, a, b, ...
Alternate(a, b, k) == [p \in 1..k |-> IF p % 2 = 1 THEN a ELSE b]

\* queries on a view of n nodes: every valid id and pair, ids and pairs just
\* outside [0, n) on either side, and lists that alternate between the
\* first and the last node
Queries(n) ==
    LET ids == {-(n + 2), -1, n} \cup (0..(n - 1))
        outside == {-(n + 2), -2, -1, n}
        last == n - 1
    IN  {NodeQ(i) : i \in ids}
        \cup {EdgeQ(i, j) : i \in 0..(n - 1), j \in 0..(n - 1)}
        \cup {EdgeQ(i, 0) : i \in outside} \cup {EdgeQ(0, j) : j \in outside}
        \cup {NodesQ(Alternate(0, last, k)) : k \in 0..MaxQueryLen}
        \cup {NodesQ(Alternate(last, 0, k)) : k \in 1..MaxQueryLen}
        \cup {NodesQ(<<0, n>>)}
        \cup {EdgesQ(Alternate(<<0, last>>, <<last, 0>>, k)) : k \in 1..MaxQueryLen}
        \cup {EdgesQ(Alternate(<<last, last>>, <<0, 0>>, k)) : k \in 1..MaxQueryLen}
        \cup {EdgesQ(<<<<0, 0>>, <<n, 0>>>>)}
        \cup DocQueries

NoCall == [op |-> "none"]

Init ==
    /\ indptr_ = None
    /\ indices_ = None
    /\ adjacency = None
    /\ given = None
    /\ replaced = FALSE
    /\ call = NoCall
    /\ ret = NoRet

Idle == ret = NoRet

Fit(a) ==
    /\ Idle
    /\ LET f == fit(Self("FirstOrder"), a)
       IN  /\ indptr_' = f.indptr_
           /\ indices_' = f.indices_
           /\ adjacency' = f.adjacency
           /\ replaced' = (indptr_ # None /\ <<indptr_, indices_>> # <<f.indptr_, f.indices_>>)
    /\ given' = a
    /\ call' = [op |-> "fit"]
    /\ ret' = [kind |-> "self"]

Predict(cls, q) ==
    /\ Idle
    /\ call' = [op |-> "predict", cls |-> cls, query |-> q]
    /\ ret' = predict(Self(cls), q)
    /\ UNCHANGED <<indptr_, indices_, adjacency, given, replaced>>

FitPredict(cls, a, q) ==
    /\ Idle
    /\ LET fp == fit_predict(Self(cls), a, q)
       IN  /\ indptr_' = fp.fitted.indptr_
           /\ indices_' = fp.fitted.indices_
           /\ adjacency' = fp.fitted.adjacency
           /\ replaced' = (indptr_ # None
                           /\ <<indptr_, indices_>> # <<fp.fitted.indptr_, fp.fitted.indices_>>)
           /\ ret' = fp.ret
    /\ given' = a
    /\ call' = [op |-> "fit_predict", cls |-> cls, query |-> q]

\* the caller takes the result; the next call can be made
Return ==
    /\ ~Idle
    /\ call' = NoCall
    /\ ret' = NoRet
    /\ replaced' = FALSE
    /\ UNCHANGED <<indptr_, indices_, adjacency, given>>

\* calls are made one at a time, each after the one before has returned
FitCall == Idle /\ \E a \in Adjacencies : Fit(a)
PredictCall == Idle /\ \E cls \in Metrics, q \in Queries(NodeCount) : Predict(cls, q)
FitPredictCall ==
    Idle /\ \E cls \in Metrics, a \in DocGraphs, q \in DocQueries : FitPredict(cls, a, q)

Next ==
    \/ FitCall
    \/ PredictCall
    \/ FitPredictCall
    \/ Return

Spec == Init /\ [][Next]_vars

-----------------------------------------------------------------------------
(* Vocabulary of the properties *)

Fitted == indptr_ # None
Predicted == call.op \in {"predict", "fit_predict"}
FitCalled == call.op \in {"fit", "fit_predict"}

\* n, the node count predict_node uses
N == Len(indptr_) - 1
ValidIds == 0..(N - 1)

\* deg_k = pointer[k+1] - pointer[k], pointer counted from 0
Deg(k) == indptr_[k + 2] - indptr_[k + 1]

\* positions of node k's neighbor slice in indices_
Slice(k) == (indptr_[k + 1] + 1)..indptr_[k + 2]
Gamma(k) == {indices_[p] : p \in Slice(k)}
Mult(k, z) == Cardinality({p \in Slice(k) : indices_[p] = z})

\* size of the neighbor intersection, counted on the stored slices
RECURSIVE CommonOver(_, _, _)
CommonOver(i, j, S) ==
    IF S = {} THEN 0
    ELSE LET z == CHOOSE y \in S : TRUE
         IN  Min(Mult(i, z), Mult(j, z)) + CommonOver(i, j, S \ {z})

CommonCount(i, j) == CommonOver(i, j, Gamma(i) \cap Gamma(j))

IdsOf(q) ==
    CASE q.shape = "node" -> {q.id}
      [] q.shape = "nodes" -> Range(q.ids)
      [] q.shape = "edge" -> {q.pair[1], q.pair[2]}
      [] q.shape = "edges" -> UNION {{q.pairs[k][1], q.pairs[k][2]} : k \in 1..Len(q.pairs)}

AllValid(q) == IdsOf(q) \subseteq ValidIds

\* the fitted adjacency is that of an undirected graph
Undirected(a) ==
    /\ NRows(a) = NCols(a)
    /\ \A i, j \in 0..(NRows(a) - 1) :
           (j \in Range(RowOf(a, i))) <=> (i \in Range(RowOf(a, j)))

RatioMetrics == {"JaccardIndex", "SaltonIndex", "SorensenIndex",
                 "HubPromotedIndex", "HubDepressedIndex"}

\* equality, zero test and range test of the exact scores
ScoreEq(cls, a, b) ==
    IF cls = "SaltonIndex" THEN a.num * a.num * b.rad = b.num * b.num * a.rad
    ELSE a.num * b.den = b.num * a.den

IsZero(cls, v) ==
    IF cls \in {"CommonNeighbors", "PreferentialAttachment"} THEN v = 0 ELSE v.num = 0

InUnit(cls, v) ==
    IF cls = "SaltonIndex" THEN v.num >= 0 /\ v.rad > 0 /\ v.num * v.num <= v.rad
    ELSE v.num >= 0 /\ v.den > 0 /\ v.num <= v.den

\* the ratio formulas as the specification's table states them
StatedFormula(cls, i, j) ==
    LET c == CommonCount(i, j)
    IN  CASE cls = "JaccardIndex" -> [num |-> c, den |-> Deg(i) + Deg(j) - c]
          [] cls = "SaltonIndex" -> [num |-> c, rad |-> Deg(i) * Deg(j)]
          [] cls = "SorensenIndex" -> [num |-> 2 * c, den |-> Deg(i) + Deg(j)]
          [] cls = "HubPromotedIndex" -> [num |-> 2 * c, den |-> Min(Deg(i), Deg(j))]
          [] cls = "HubDepressedIndex" -> [num |-> 2 * c, den |-> Max(Deg(i), Deg(j))]

\* the same with the hub indices as the docstring examples show them
ObservedFormula(cls, i, j) ==
    LET c == CommonCount(i, j)
    IN  CASE cls = "HubPromotedIndex" -> [num |-> c, den |-> Min(Deg(i), Deg(j))]
          [] cls = "HubDepressedIndex" -> [num |-> c, den |-> Max(Deg(i), Deg(j))]
          [] OTHER -> StatedFormula(cls, i, j)

\* the non-decreasing arrangement of a row
Ascending(row) ==
    CHOOSE s \in [1..Len(row) -> Range(row)] :
        /\ \A k \in 1..(Len(row) - 1) : s[k] <= s[k + 1]
        /\ \A z \in Range(row) :
               Cardinality({k \in 1..Len(row) : s[k] = z})
                   = Cardinality({k \in 1..Len(row) : row[k] = z})

\* the CSR projection of a matrix: its row offsets, and its rows in
\* ascending order one after the other
RECURSIVE RowsUpTo(_, _)
RowsUpTo(a, i) == IF i < 0 THEN <<>> ELSE RowsUpTo(a, i - 1) \o Ascending(RowOf(a, i))

Projection(a) == [indptr_ |-> a.indptr, indices_ |-> RowsUpTo(a, NRows(a) - 1)]

-----------------------------------------------------------------------------
(* Properties *)

C2_Symmetric ==
    (Predicted /\ Fitted /\ call.query.shape = "edge" /\ AllValid(call.query)
       /\ Undirected(given)) =>
        /\ IsValue(ret)
        /\ predict(Self(call.cls), EdgeQ(call.query.pair[2], call.query.pair[1])) = ret

\* an undirected graph, two different nodes of different degree, a score that is not 0
C2_Witness ==
    /\ Predicted /\ Fitted /\ call.query.shape = "edge" /\ AllValid(call.query)
    /\ Undirected(given)
    /\ call.cls = "JaccardIndex"
    /\ call.query.pair[1] # call.query.pair[2]
    /\ Deg(call.query.pair[1]) # Deg(call.query.pair[2])
    /\ IsValue(ret) /\ ret.value.num > 0

\* the products deg_i * deg_j a query of valid ids asks for, in its shape
DegreeProducts(q) ==
    CASE q.shape = "node" -> [k \in 1..N |-> Deg(q.id) * Deg(k - 1)]
      [] q.shape = "nodes" ->
            [r \in 1..Len(q.ids) |-> [k \in 1..N |-> Deg(q.ids[r]) * Deg(k - 1)]]
      [] q.shape = "edge" -> Deg(q.pair[1]) * Deg(q.pair[2])
      [] q.shape = "edges" ->
            [k \in 1..Len(q.pairs) |-> Deg(q.pairs[k][1]) * Deg(q.pairs[k][2])]

\* C3: PreferentialAttachment returns, for a source i and each target j in
\* the given order, the integer product deg_i * deg_j with
\* deg_k = pointer[k+1] - pointer[k]; PreferentialAttachment(i, i) is
\* deg(i)^2; and fit_predict(house, 0) is [4, 6, 4, 4, 6].
C3_PreferentialAttachment ==
    (Predicted /\ Fitted /\ call.cls = "PreferentialAttachment"
       /\ AllValid(call.query)) =>
        /\ ret = Value(DegreeProducts(call.query))
        /\ (call.query.shape = "edge" /\ call.query.pair[1] = call.query.pair[2])
               => ret.value = Deg(call.query.pair[1]) ^ 2
        /\ (call.op = "fit_predict" /\ given = house /\ call.query = NodeQ(0))
               => ret = Value(<<4, 6, 4, 4, 6>>)

\* fit_predict(house, 0) was called on a PreferentialAttachment instance
C3_Witness ==
    /\ call.op = "fit_predict"
    /\ call.cls = "PreferentialAttachment"
    /\ given = house
    /\ call.query = NodeQ(0)
    /\ IsValue(ret)

\* a pair of valid ids, both of degree >= 1, was scored by a ratio metric
RatioCase ==
    /\ Predicted /\ Fitted /\ call.cls \in RatioMetrics
    /\ call.query.shape = "edge" /\ AllValid(call.query)
    /\ Deg(call.query.pair[1]) >= 1
    /\ Deg(call.query.pair[2]) >= 1

C5_OutOfRangeRaises ==
    (Predicted /\ Fitted /\ ~AllValid(call.query)) => ret = Raise("IndexError")

\* the score the claim is about: source or target of the pair is isolated
IsolatedCase ==
    /\ Predicted /\ Fitted /\ AllValid(call.query)
    /\ call.cls \in RatioMetrics \cup {"CommonNeighbors", "PreferentialAttachment"}
    /\ \/ /\ call.query.shape = "edge"
          /\ call.query.pair[1] # call.query.pair[2]
          /\ (Deg(call.query.pair[1]) = 0 \/ Deg(call.query.pair[2]) = 0)
       \/ /\ call.query.shape = "node"
          /\ Deg(call.query.id) = 0

\* C6: an isolated node (degree 0) scores 0 against every other node under
\* the five ratio metrics, Common Neighbors and Preferential Attachment,
\* also when the other node is isolated too, and nothing is raised.
C6_IsolatedScoresZero ==
    IsolatedCase =>
        /\ IsValue(ret)
        /\ call.query.shape = "edge" => IsZero(call.cls, ret.value)
        /\ call.query.shape = "node" =>
               \A j \in ValidIds \ {call.query.id} : IsZero(call.cls, ret.value[j + 1])

\* two different isolated nodes were scored by the Jaccard index
C6_Witness ==
    /\ IsolatedCase
    /\ call.cls = "JaccardIndex"
    /\ call.query.shape = "edge"
    /\ Deg(call.query.pair[1]) = 0 /\ Deg(call.query.pair[2]) = 0
    /\ IsValue(ret) /\ ret.value.num = 0

\* C7: after any sequence of fit and predict calls the stored view
\* (indptr_, indices_) is the projection of the adjacency given to the most
\* recent fit alone, both arrays together, no predict call changes it, and
\* every predict result is the one that projection and the query determine.
C7_ViewIsLatestFit ==
    /\ ~Fitted => given = None
    /\ Fitted => /\ indptr_ = Projection(given).indptr_
                 /\ indices_ = Projection(given).indices_
    /\ (Fitted /\ Predicted) =>
           ret = predict([cls |-> call.cls,
                          indptr_ |-> Projection(given).indptr_,
                          indices_ |-> Projection(given).indices_], call.query)

\* a fit has just replaced the view of an earlier fit by a different one
C7_Witness == call.op = "fit" /\ replaced

\* C8: after fit on any accepted adjacency, square or rectangular, the
\* pointer is non-decreasing with pointer[0] = 0 and pointer[n] = |E|, every
\* neighbor slice is sorted ascending without duplicates, and every stored
\* index is a node id in [0, n), n = len(pointer) - 1.
C8_ViewInvariant ==
    Fitted =>
        /\ indptr_[1] = 0
        /\ indptr_[N + 1] = Len(indices_)
        /\ \A k \in 1..N : indptr_[k] <= indptr_[k + 1]
        /\ \A i \in ValidIds :
               \A p \in Slice(i) : (p + 1) \in Slice(i) => indices_[p] < indices_[p + 1]
        /\ \A p \in 1..Len(indices_) : indices_[p] \in ValidIds

\* C9: fit leaves the caller's adjacency object as it was: its index and
\* data arrays, the order of the entries within each row included.
C9_InputUntouched == FitCalled => adjacency = given

\* a pair of valid ids was scored by Resource Allocation
ResourceCase ==
    /\ Predicted /\ Fitted /\ call.cls = "ResourceAllocation"
    /\ call.query.shape = "edge" /\ AllValid(call.query)

\* every shared neighbor of the pair is a node of degree >= 1, and the score
\* is the sum of 1/deg_z over the shared neighbors
SharedNeighborsHaveDegree ==
    LET i == call.query.pair[1]
        j == call.query.pair[2]
    IN  /\ \A z \in Gamma(i) \cap Gamma(j) : z \in ValidIds /\ Deg(z) >= 1
        /\ IsValue(ret)
        /\ Len(ret.value.terms) = CommonCount(i, j)
        /\ \A k \in 1..Len(ret.value.terms) :
               /\ ret.value.terms[k] >= 1
               /\ \E z \in Gamma(i) \cap Gamma(j) : ret.value.terms[k] = Deg(z)

\* C10 as stated: for every fitted graph, directed or undirected, and every
\* pair (i, j), each shared neighbor z has deg_z >= 1, so the Resource
\* Allocation sum never divides by zero.
C10_SharedDegreeAnyGraph == ResourceCase => SharedNeighborsHaveDegree

\* C10 amended: for every fitted undirected (symmetric) graph and every
\* pair (i, j), each shared neighbor z has deg_z >= 1, so the Resource
\* Allocation sum never divides by zero.
C10_SharedDegreeUndirected ==
    (ResourceCase /\ Undirected(given)) => SharedNeighborsHaveDegree

\* two different nodes of an undirected graph with a shared neighbor were scored
C10_Witness ==
    /\ ResourceCase /\ Undirected(given)
    /\ call.query.pair[1] # call.query.pair[2]
    /\ IsValue(ret) /\ Len(ret.value.terms) >= 1

====
